---- MODULE Spec2Model ----
(***************************************************************************)
(* Inference with a trained Gaussian LDA model (gaussianlda/model.py):     *)
(* the constructor's cached Student-t parameters, the two log-density      *)
(* evaluators and the per-document Gibbs sampler GaussianLDA.sample.       *)
(*                                                                         *)
(* Numbers are exact rationals <<n, d>> (d > 0, lowest terms).  gammaln    *)
(* and log are not computed: a log-density is the record of the arguments  *)
(* the source hands to them, so two log-densities are equal when every     *)
(* argument of the formula is equal.                                       *)
(***************************************************************************)
EXTENDS Integers, Sequences, FiniteSets, TLC

\* ---------------------------------------------------------------- bounds
MaxTables == 2
EmbeddingSize == 2
VocabSize == 2
MaxDocLen == 2
MaxIterations == 2
MaxCount == 3
RngMod == 8

\* The sample() calls in flight: one in Spec, both in SpecConc.
Calls == {1, 2}

VARIABLES
    \* the model object (GaussianLDA.__init__)
    vocab_embeddings, num_tables, alpha, table_counts, table_means,
    log_determinants, table_cholesky_ltriangular_mat, prior,
    scaleTdistrn, nu,
    \* the process-wide generator behind np.random.randint / np.random.choice
    rng,
    \* one sample() call each: arguments, locals, position, outcome
    pc, doc, num_iterations, table_assignments, doc_table_counts,
    iteration, w, new_table_id, result, err, seed,
    \* calls of the two density evaluators on one embedding
    eval_x, eval_table, evaluated, logprob_single, logprob_tables,
    solved_single, solved_tables

modelVars == <<vocab_embeddings, num_tables, alpha, table_counts, table_means,
               log_determinants, table_cholesky_ltriangular_mat, prior,
               scaleTdistrn, nu>>
callVars == <<pc, doc, num_iterations, table_assignments, doc_table_counts,
              iteration, w, new_table_id, result, err, seed>>
evalVars == <<eval_x, eval_table, evaluated, logprob_single, logprob_tables,
              solved_single, solved_tables>>
vars == <<modelVars, rng, callVars, evalVars>>

\* ------------------------------------------------------ exact arithmetic
Abs(n) == IF n < 0 THEN 0 - n ELSE n

RECURSIVE GCD(_, _)
GCD(a, b) == IF b = 0 THEN a ELSE GCD(b, a % b)

\* The rational n/d in lowest terms with a positive denominator.
RNorm(n, d) ==
    LET g == GCD(Abs(n), Abs(d))
        s == IF d < 0 THEN 0 - 1 ELSE 1
    IN  <<(s * n) \div g, (s * d) \div g>>

FromInt(n) == <<n, 1>>
RAdd(p, q) == RNorm(p[1] * q[2] + q[1] * p[2], p[2] * q[2])
RSub(p, q) == RNorm(p[1] * q[2] - q[1] * p[2], p[2] * q[2])
RMul(p, q) == RNorm(p[1] * q[1], p[2] * q[2])
RDiv(p, q) == RNorm(p[1] * q[2], p[2] * q[1])
RLess(p, q) == p[1] * q[2] < q[1] * p[2]

IsSquare(n) == \E k \in 0..n : k * k = n
ISqrt(n) == CHOOSE k \in 0..n : k * k = n

\* np.sqrt on a rational whose root is rational (Init admits no other).
IsSquareRat(p) == p[1] >= 0 /\ IsSquare(p[1]) /\ IsSquare(p[2])
np_sqrt(p) == <<ISqrt(p[1]), ISqrt(p[2])>>

\* ------------------------------------------------------- linear algebra
\* Vectors are sequences, matrices sequences of rows, 1-based.
VecSub(x, m) == [i \in 1..Len(x) |-> RSub(x[i], m[i])]
MatScale(s, a) == [i \in 1..Len(a) |-> [j \in 1..Len(a[i]) |-> RMul(s, a[i][j])]]

RECURSIVE DotRange(_, _, _, _)
\* sum of row[j] * z[j] for j in lo..hi
DotRange(row, z, lo, hi) ==
    IF lo > hi THEN FromInt(0)
    ELSE RAdd(RMul(row[lo], z[lo]), DotRange(row, z, lo + 1, hi))

MatVec(a, z) == [i \in 1..Len(a) |-> DotRange(a[i], z, 1, Len(z))]

RECURSIVE SumSquares(_, _)
SumSquares(z, i) ==
    IF i > Len(z) THEN FromInt(0)
    ELSE RAdd(RMul(z[i], z[i]), SumSquares(z, i + 1))

RECURSIVE ForwardSub(_, _, _, _)
\* rows i..n of the solution from the lower triangle of a; zs holds rows 1..i-1
ForwardSub(a, b, i, zs) ==
    IF i > Len(b) THEN zs
    ELSE ForwardSub(a, b, i + 1,
            Append(zs, RDiv(RSub(b[i], DotRange(a[i], zs, 1, i - 1)), a[i][i])))

RECURSIVE BackSub(_, _, _, _)
\* rows i..1 of the solution from the upper triangle of a; zs holds rows i+1..n
BackSub(a, b, i, zs) ==
    IF i < 1 THEN zs
    ELSE BackSub(a, b, i - 1,
            [zs EXCEPT ![i] =
                RDiv(RSub(b[i], DotRange(a[i], zs, i + 1, Len(b))), a[i][i])])

\* scipy.linalg.solve_triangular(a, b, lower=...): LAPACK trtrs reads only the
\* triangle that `lower` names and never the other one.
solve_triangular(a, b, lower) ==
    IF lower THEN ForwardSub(a, b, 1, <<>>)
    ELSE BackSub(a, b, Len(b), [i \in 1..Len(b) |-> FromInt(0)])

\* --------------------------------------------------- GaussianLDA.__init__
One == FromInt(1)
Tables == 0..(num_tables - 1)
embedding_size == Len(vocab_embeddings[0])

\* k_n, nu_n and the argument of np.sqrt for a table with `count` customers.
ScaleSquared(kappa, nu0, count, d) ==
    LET k_n == RAdd(kappa, count)
        nu_n == RAdd(nu0, count)
    IN  RDiv(RAdd(k_n, One), RMul(k_n, RAdd(RSub(nu_n, FromInt(d)), One)))

\* self.scaleTdistrn = np.sqrt((k_n + 1.) / (k_n * (nu_n - embedding_size + 1.)))
CachedScale(kappa, nu0, counts, d) ==
    [t \in DOMAIN counts |-> np_sqrt(ScaleSquared(kappa, nu0, counts[t], d))]

\* self.nu = self.prior.nu + self.table_counts - self.embedding_size + 1.
CachedNu(nu0, counts, d) ==
    [t \in DOMAIN counts |-> RAdd(RSub(RAdd(nu0, counts[t]), FromInt(d)), One)]

\* The constructor on the arguments `a`; a.prior_nu is the nu of
\* Wishart(vocab_embeddings, kappa), a.kappa its kappa.
Construct(a) ==
    /\ vocab_embeddings = a.vocab_embeddings
    /\ num_tables = a.num_tables
    /\ alpha = a.alpha
    /\ table_counts = a.table_counts
    /\ table_means = a.table_means
    /\ log_determinants = a.log_determinants
    /\ table_cholesky_ltriangular_mat = a.table_cholesky_ltriangular_mat
    /\ prior = [kappa |-> a.kappa, nu |-> a.prior_nu]
    /\ scaleTdistrn = CachedScale(a.kappa, a.prior_nu, a.table_counts,
                                  Len(a.vocab_embeddings[0]))
    /\ nu = CachedNu(a.prior_nu, a.table_counts, Len(a.vocab_embeddings[0]))

\* ------------------------------------------------ log_multivariate_tdensity
\* scaleTdistrn as the single-table evaluator recomputes it from the count
single_scaleTdistrn(table_id) ==
    LET count == table_counts[table_id]
        k_n == RAdd(prior.kappa, count)
        nu_n == RAdd(prior.nu, count)
    IN  np_sqrt(RDiv(RAdd(k_n, One),
                     RMul(k_n, RAdd(RSub(nu_n, FromInt(embedding_size)), One))))

\* nu as the single-table evaluator recomputes it
single_nu(table_id) ==
    RAdd(RSub(RAdd(prior.nu, table_counts[table_id]), FromInt(embedding_size)), One)

\* `solved`: solve_triangular(ltriangular_chol, x_minus_mu, check_finite=False);
\* no `lower` argument is passed, so scipy's default lower=False applies.
single_solved(x, table_id) ==
    LET x_minus_mu == VecSub(x, table_means[table_id])
        ltriangular_chol == MatScale(single_scaleTdistrn(table_id),
                                     table_cholesky_ltriangular_mat[table_id])
    IN  solve_triangular(ltriangular_chol, x_minus_mu, FALSE)

\* logprob = gammaln((nu + D) / 2) - (gammaln(nu / 2) + D / 2 * (log(nu) + log(pi))
\*           + log_determinants[table_id] + (nu + D) / 2 * log(1 + val / nu))
log_multivariate_tdensity(x, table_id) ==
    LET nu_t == single_nu(table_id)
        d == FromInt(embedding_size)
        val == SumSquares(single_solved(x, table_id), 1)
    IN  [gammaln_plus |-> RDiv(RAdd(nu_t, d), FromInt(2)),
         gammaln_minus |-> RDiv(nu_t, FromInt(2)),
         coef_log_nu_pi |-> RDiv(d, FromInt(2)),
         log_nu |-> nu_t,
         log_det |-> log_determinants[table_id],
         coef_log1p |-> RDiv(RAdd(nu_t, d), FromInt(2)),
         log1p |-> RAdd(One, RDiv(val, nu_t))]

\* ----------------------------------------- log_multivariate_tdensity_tables
\* Mutant: the batched evaluator alone passes lower=True.
table_solved_lower(x, table) ==
    LET x_minus_mu == VecSub(x, table_means[table])
        ltriangular_chol == MatScale(scaleTdistrn[table],
                                     table_cholesky_ltriangular_mat[table])
    IN  solve_triangular(ltriangular_chol, x_minus_mu, TRUE)

\* table_solved: solve_triangular(ltriangular_chol[table], x_minus_mu[table]),
\* again without `lower`, on the scale cached by the constructor.
table_solved(x, table) ==
    LET x_minus_mu == VecSub(x, table_means[table])
        ltriangular_chol == MatScale(scaleTdistrn[table],
                                     table_cholesky_ltriangular_mat[table])
    IN  solve_triangular(ltriangular_chol, x_minus_mu, FALSE)

\* the same formula, vectorised over the cached self.nu and log_determinants
log_multivariate_tdensity_tables(x) ==
    [table \in Tables |->
        LET d == FromInt(embedding_size)
            val == SumSquares(table_solved(x, table), 1)
        IN  [gammaln_plus |-> RDiv(RAdd(nu[table], d), FromInt(2)),
             gammaln_minus |-> RDiv(nu[table], FromInt(2)),
             coef_log_nu_pi |-> RDiv(d, FromInt(2)),
             log_nu |-> nu[table],
             log_det |-> log_determinants[table],
             coef_log1p |-> RDiv(RAdd(nu[table], d), FromInt(2)),
             log1p |-> RAdd(One, RDiv(val, nu[table]))]]

\* ------------------------------------------------------ GaussianLDA.sample
vocab_size == Cardinality(DOMAIN vocab_embeddings)

\* self.vocab_embeddings[cust_id]: an id in [-V, V) selects a row (a negative
\* one counts from the end), any other id raises IndexError.
ValidIndex(cust_id) == cust_id \in (0 - vocab_size)..(vocab_size - 1)
Row(cust_id) == IF cust_id < 0 THEN cust_id + vocab_size ELSE cust_id
InVocabulary(cust_id) == cust_id \in 0..(vocab_size - 1)

\* Mutant: the upper bound is treated as inclusive.
randint_inclusive(high) == 0..high

\* the values np.random.randint(high, size=...) can draw: [0, high)
np_random_randint_range(high) == 0..(high - 1)

RECURSIVE SeqMax(_, _)
SeqMax(a, i) ==
    IF i > Len(a) THEN 0 - 1
    ELSE LET m == SeqMax(a, i + 1) IN IF a[i] > m THEN a[i] ELSE m

\* np.bincount(a, minlength=m): one bin per value up to max(a), at least m bins
np_bincount(a, minlength) ==
    LET top == SeqMax(a, 1) + 1
        bins == IF top > minlength THEN top ELSE minlength
    IN  [k \in 0..(bins - 1) |-> Cardinality({i \in 1..Len(a) : a[i] = k})]

\* counts = doc_table_counts[:] + self.alpha
PriorCounts(c) ==
    [k \in DOMAIN doc_table_counts[c] |-> RAdd(FromInt(doc_table_counts[c][k]), alpha)]

\* x = self.vocab_embeddings[cust_id] for the position the call is at
CurrentX(c) == vocab_embeddings[Row(doc[c][w[c] + 1])]

\* log_posteriors = np.log(counts) + log_lls is finite, so posterior[t] > 0,
\* exactly for the tables whose logarithms have positive arguments;
\* np.random.choice(num_tables, p=posterior) returns one of them.
PosteriorSupport(counts, log_lls) ==
    {t \in Tables : /\ RLess(FromInt(0), counts[t])
                    /\ RLess(FromInt(0), log_lls[t].log_nu)
                    /\ RLess(FromInt(0), log_lls[t].log1p)}

\* table_assignments = list(np.random.randint(self.num_tables, size=len(doc)))
\* doc_table_counts = np.bincount(table_assignments, minlength=self.num_tables)
\* `a` is the vector the generator drew.
SampleCall(c, d, n, a) ==
    /\ pc[c] = "idle"
    /\ a \in [1..Len(d) -> np_random_randint_range(num_tables)]
    /\ doc' = [doc EXCEPT ![c] = d]
    /\ num_iterations' = [num_iterations EXCEPT ![c] = n]
    /\ table_assignments' = [table_assignments EXCEPT ![c] = a]
    /\ doc_table_counts' = [doc_table_counts EXCEPT ![c] = np_bincount(a, num_tables)]
    /\ iteration' = [iteration EXCEPT ![c] = 0]
    /\ w' = [w EXCEPT ![c] = 0]
    /\ seed' = [seed EXCEPT ![c] = rng]
    /\ pc' = [pc EXCEPT ![c] = "loop"]
    /\ UNCHANGED <<modelVars, evalVars, new_table_id, result, err>>

\* the loops have a next token, and its embedding row exists
AtToken(c) ==
    /\ pc[c] = "loop"
    /\ iteration[c] < num_iterations[c]
    /\ w[c] < Len(doc[c])

\* x = self.vocab_embeddings[cust_id] raises IndexError
RaiseIndexError(c) ==
    /\ AtToken(c)
    /\ ~ValidIndex(doc[c][w[c] + 1])
    /\ pc' = [pc EXCEPT ![c] = "raised"]
    /\ err' = [err EXCEPT ![c] = "IndexError"]
    /\ UNCHANGED <<modelVars, evalVars, doc, num_iterations, table_assignments,
                   doc_table_counts, iteration, w, new_table_id, result, seed>>

\* Mutant: the retract also takes the customer out of the global table
\* count, as a trainer's sweep does.
RetractUpdatingGlobals(c) ==
    /\ AtToken(c)
    /\ ValidIndex(doc[c][w[c] + 1])
    /\ LET old_table_id == table_assignments[c][w[c] + 1]
       IN  /\ table_assignments' =
                  [table_assignments EXCEPT ![c][w[c] + 1] = 0 - 1]
           /\ doc_table_counts' =
                  [doc_table_counts EXCEPT ![c][old_table_id] = @ - 1]
           /\ table_counts' =
                  [table_counts EXCEPT ![old_table_id] = RSub(@, One)]
    /\ pc' = [pc EXCEPT ![c] = "retracted"]
    /\ UNCHANGED <<vocab_embeddings, num_tables, alpha, table_means,
                   log_determinants, table_cholesky_ltriangular_mat, prior,
                   scaleTdistrn, nu, evalVars, doc, num_iterations, iteration, w,
                   new_table_id, result, err, seed>>

\* Mutant: the retract marks the position but leaves the histogram alone.
RetractKeepsCount(c) ==
    /\ AtToken(c)
    /\ ValidIndex(doc[c][w[c] + 1])
    /\ table_assignments' = [table_assignments EXCEPT ![c][w[c] + 1] = 0 - 1]
    /\ pc' = [pc EXCEPT ![c] = "retracted"]
    /\ UNCHANGED <<modelVars, evalVars, doc, num_iterations, doc_table_counts,
                   iteration, w, new_table_id, result, err, seed>>

\* old_table_id = table_assignments[w]; table_assignments[w] = -1
\* doc_table_counts[old_table_id] -= 1
Retract(c) ==
    /\ AtToken(c)
    /\ ValidIndex(doc[c][w[c] + 1])
    /\ LET old_table_id == table_assignments[c][w[c] + 1]
       IN  /\ table_assignments' =
                  [table_assignments EXCEPT ![c][w[c] + 1] = 0 - 1]
           /\ doc_table_counts' =
                  [doc_table_counts EXCEPT ![c][old_table_id] = @ - 1]
    /\ pc' = [pc EXCEPT ![c] = "retracted"]
    /\ UNCHANGED <<modelVars, evalVars, doc, num_iterations, iteration, w,
                   new_table_id, result, err, seed>>

\* counts, log_lls, log_posteriors, posterior and the draw
\* new_table_id = np.random.choice(self.num_tables, p=posterior); `t` is the draw.
Resample(c, t) ==
    /\ pc[c] = "retracted"
    /\ t \in PosteriorSupport(PriorCounts(c),
                              log_multivariate_tdensity_tables(CurrentX(c)))
    /\ new_table_id' = [new_table_id EXCEPT ![c] = t]
    /\ pc' = [pc EXCEPT ![c] = "sampled"]
    /\ UNCHANGED <<modelVars, evalVars, doc, num_iterations, table_assignments,
                   doc_table_counts, iteration, w, result, err, seed>>

\* Mutant: the commit counts the new table but leaves the -1 marker in place.
CommitKeepsMarker(c) ==
    /\ pc[c] = "sampled"
    /\ doc_table_counts' =
           [doc_table_counts EXCEPT ![c][new_table_id[c]] = @ + 1]
    /\ w' = [w EXCEPT ![c] = @ + 1]
    /\ pc' = [pc EXCEPT ![c] = "loop"]
    /\ UNCHANGED <<modelVars, evalVars, doc, num_iterations, table_assignments,
                   iteration, new_table_id, result, err, seed>>

\* Mutant: the commit writes the assignment but does not count it.
CommitWithoutCount(c) ==
    /\ pc[c] = "sampled"
    /\ table_assignments' =
           [table_assignments EXCEPT ![c][w[c] + 1] = new_table_id[c]]
    /\ w' = [w EXCEPT ![c] = @ + 1]
    /\ pc' = [pc EXCEPT ![c] = "loop"]
    /\ UNCHANGED <<modelVars, evalVars, doc, num_iterations, doc_table_counts,
                   iteration, new_table_id, result, err, seed>>

\* doc_table_counts[new_table_id] += 1; table_assignments[w] = new_table_id
Commit(c) ==
    /\ pc[c] = "sampled"
    /\ doc_table_counts' =
           [doc_table_counts EXCEPT ![c][new_table_id[c]] = @ + 1]
    /\ table_assignments' =
           [table_assignments EXCEPT ![c][w[c] + 1] = new_table_id[c]]
    /\ w' = [w EXCEPT ![c] = @ + 1]
    /\ pc' = [pc EXCEPT ![c] = "loop"]
    /\ UNCHANGED <<modelVars, evalVars, doc, num_iterations, iteration,
                   new_table_id, result, err, seed>>

\* enumerate(doc) is exhausted: the next iteration of range(num_iterations)
NextSweep(c) ==
    /\ pc[c] = "loop"
    /\ iteration[c] < num_iterations[c]
    /\ w[c] = Len(doc[c])
    /\ iteration' = [iteration EXCEPT ![c] = @ + 1]
    /\ w' = [w EXCEPT ![c] = 0]
    /\ UNCHANGED <<modelVars, evalVars, pc, doc, num_iterations, table_assignments,
                   doc_table_counts, new_table_id, result, err, seed>>

\* range(num_iterations) is exhausted (at once when num_iterations <= 0):
\* return table_assignments
Return(c) ==
    /\ pc[c] = "loop"
    /\ iteration[c] >= num_iterations[c]
    /\ result' = [result EXCEPT ![c] = table_assignments[c]]
    /\ pc' = [pc EXCEPT ![c] = "returned"]
    /\ UNCHANGED <<modelVars, evalVars, doc, num_iterations, table_assignments,
                   doc_table_counts, iteration, w, new_table_id, err, seed>>

\* ------------------------------------------- calls of the density evaluators
EvalSingle ==
    /\ "single" \notin evaluated
    /\ logprob_single' = log_multivariate_tdensity(eval_x, eval_table)
    /\ solved_single' = single_solved(eval_x, eval_table)
    /\ evaluated' = evaluated \cup {"single"}
    /\ UNCHANGED <<modelVars, rng, callVars, eval_x, eval_table, logprob_tables,
                   solved_tables>>

EvalTables ==
    /\ "tables" \notin evaluated
    /\ logprob_tables' = log_multivariate_tdensity_tables(eval_x)
    /\ solved_tables' = [table \in Tables |-> table_solved(eval_x, table)]
    /\ evaluated' = evaluated \cup {"tables"}
    /\ UNCHANGED <<modelVars, rng, callVars, eval_x, eval_table, logprob_single,
                   solved_single>>

\* ------------------------------------------------------------ the inputs
Dims == 1..EmbeddingSize
Vectors == [Dims -> {FromInt(0), FromInt(1)}]
ConstVec(v) == [i \in Dims |-> FromInt(v)]

\* a lower-triangular factor: `diag` on the diagonal, `sub` below it, 0 above
LowerTri(diag, sub) ==
    [i \in Dims |-> [j \in Dims |->
        FromInt(IF i = j THEN diag ELSE IF j < i THEN sub ELSE 0)]]
Chols == {LowerTri(diag, sub) : diag \in {1, 2}, sub \in {0, 1}}

\* log_determinants[table] = 2 * slogdet(chol): kept as the number whose
\* logarithm it is, the squared product of the diagonal.
RECURSIVE DiagProduct(_, _)
DiagProduct(chol, i) ==
    IF i > Len(chol) THEN One ELSE RMul(chol[i][i], DiagProduct(chol, i + 1))
LogDetOf(chol) == RMul(DiagProduct(chol, 1), DiagProduct(chol, 1))

\* Priors with kappa_0 > 0 and nu_0 > D - 1, and the counts for which the
\* Student-t scale is a rational number.
Priors == [kappa : {FromInt(1), FromInt(2)},
           nu : {FromInt(EmbeddingSize), FromInt(EmbeddingSize + 1)}]
ValidCounts(pr) ==
    {FromInt(n) : n \in {m \in 0..MaxCount :
        IsSquareRat(ScaleSquared(pr.kappa, pr.nu, FromInt(m), EmbeddingSize))}}
\* the parameters of a table: any valid count and any factor, and for table t
\* the mean (t mod 2, ...)
TableChoices(pr) == [count : ValidCounts(pr), chol : Chols]
TableParams(t, ch) == [count |-> ch.count, mean |-> ConstVec(t % 2), chol |-> ch.chol]

\* word v has the embedding ((v+1) mod 2, (v+2) mod 2, ...)
Embeddings == [v \in 0..(VocabSize - 1) |-> [i \in Dims |-> FromInt((v + i) % 2)]]

\* the constructor's arguments for k tables with the parameters tp[0..k-1];
\* alpha is the loader's default 1 / num_tables
ModelArgs(k, pr, tp) ==
    [vocab_embeddings |-> Embeddings,
     num_tables |-> k,
     alpha |-> RNorm(1, k),
     kappa |-> pr.kappa,
     prior_nu |-> pr.nu,
     table_counts |-> [t \in 0..(k - 1) |-> tp[t].count],
     table_means |-> [t \in 0..(k - 1) |-> tp[t].mean],
     log_determinants |-> [t \in 0..(k - 1) |-> LogDetOf(tp[t].chol)],
     table_cholesky_ltriangular_mat |-> [t \in 0..(k - 1) |-> tp[t].chol]]

\* the prior and the tables of the sampler runs: kappa_0 = 1, nu_0 = D + 1,
\* table t with count 0 or 3, mean (t mod 2, ...) and a factor with a
\* non-zero entry below the diagonal
SamplerPrior == [kappa |-> FromInt(1), nu |-> FromInt(EmbeddingSize + 1)]
SamplerTable(t) ==
    [count |-> FromInt(IF t % 2 = 0 THEN 0 ELSE 3),
     mean |-> ConstVec(t % 2),
     chol |-> LowerTri(1 + (t % 2), 1)]

NoCalls ==
    /\ pc = [c \in Calls |-> "idle"]
    /\ doc = [c \in Calls |-> <<>>]
    /\ num_iterations = [c \in Calls |-> 0]
    /\ table_assignments = [c \in Calls |-> <<>>]
    /\ doc_table_counts = [c \in Calls |-> <<>>]
    /\ iteration = [c \in Calls |-> 0]
    /\ w = [c \in Calls |-> 0]
    /\ new_table_id = [c \in Calls |-> 0 - 1]
    /\ result = [c \in Calls |-> <<>>]
    /\ err = [c \in Calls |-> ""]
    /\ seed = [c \in Calls |-> 0]

NoEvals ==
    /\ eval_x = <<>>
    /\ eval_table = 0
    /\ evaluated = {}
    /\ logprob_single = <<>>
    /\ logprob_tables = <<>>
    /\ solved_single = <<>>
    /\ solved_tables = <<>>

Tokens == (0 - 1)..VocabSize
Docs == UNION {[1..n -> Tokens] : n \in 0..MaxDocLen}
Iterations == (0 - 1)..MaxIterations

\* ------------------------------------------------- Spec: one sample() call
Init ==
    /\ \E k \in 1..MaxTables :
          Construct(ModelArgs(k, SamplerPrior, [t \in 0..(k - 1) |-> SamplerTable(t)]))
    /\ rng = 0
    /\ NoCalls
    /\ NoEvals

\* The draws of the generator are any values it can return.
Next ==
    \/ /\ pc[1] = "idle"
       /\ \E d \in Docs, n \in Iterations :
             \E a \in [1..Len(d) -> np_random_randint_range(num_tables)] :
                SampleCall(1, d, n, a) /\ UNCHANGED rng
    \/ RaiseIndexError(1) /\ UNCHANGED rng
    \/ Retract(1) /\ UNCHANGED rng
    \/ \E t \in Tables : Resample(1, t) /\ UNCHANGED rng
    \/ Commit(1) /\ UNCHANGED rng
    \/ NextSweep(1) /\ UNCHANGED rng
    \/ Return(1) /\ UNCHANGED rng

Spec == Init /\ [][Next]_vars

\* ------------------------------- SpecDensity: the evaluators on one embedding
InitDensity ==
    /\ \E k \in 1..MaxTables, pr \in Priors :
          \E ch \in [0..(k - 1) -> TableChoices(pr)] :
             /\ Construct(ModelArgs(k, pr, [t \in 0..(k - 1) |-> TableParams(t, ch[t])]))
             /\ eval_table \in 0..(k - 1)
    /\ eval_x \in Vectors
    /\ rng = 0
    /\ NoCalls
    /\ evaluated = {}
    /\ logprob_single = <<>>
    /\ logprob_tables = <<>>
    /\ solved_single = <<>>
    /\ solved_tables = <<>>

NextDensity == EvalSingle \/ EvalTables

SpecDensity == InitDensity /\ [][NextDensity]_vars

\* ------------------- SpecConc: two sample() calls on the one np.random state
\* The generator: a state in 0..RngMod-1; a draw reads the state and steps it.
RngNext(s) == (5 * s + 3) % RngMod
RECURSIVE RngAfter(_, _)
RngAfter(s, k) == IF k = 0 THEN s ELSE RngAfter(RngNext(s), k - 1)

\* the uniform variate in [0, 1) behind np.random.choice
RngUniform(s) == RNorm(s, RngMod)

\* np.random.randint(high, size=size): one draw per element, under one lock
RandintDraws(s, high, size) == [i \in 1..size |-> RngAfter(s, i - 1) % high]

RECURSIVE Cdf(_, _)
Cdf(p, t) == IF t = 0 THEN p[0] ELSE RAdd(p[t], Cdf(p, t - 1))

\* np.random.choice(len(p), p=p) on the variate u: cdf.searchsorted(u, side='right')
np_random_choice(p, u) ==
    CHOOSE t \in DOMAIN p :
        /\ RLess(u, Cdf(p, t))
        /\ \A r \in DOMAIN p : r < t => ~RLess(u, Cdf(p, r))

RECURSIVE SumCounts(_, _)
SumCounts(counts, t) ==
    IF t < 0 THEN FromInt(0) ELSE RAdd(counts[t], SumCounts(counts, t - 1))

\* posterior = np.exp(log_posteriors - log_posteriors.max()); posterior /= sum.
\* With equal log-likelihoods on every table exp() of the difference is
\* counts[t] / max(counts), and the normalised vector is counts / sum(counts).
Posterior(counts, log_lls) ==
    CASE \A r, t \in Tables : log_lls[r] = log_lls[t] ->
        [t \in Tables |-> RDiv(counts[t], SumCounts(counts, num_tables - 1))]

ConcSampleCall(c, d, n) ==
    /\ SampleCall(c, d, n, RandintDraws(rng, num_tables, Len(d)))
    /\ rng' = RngAfter(rng, Len(d))

ConcResample(c) ==
    /\ pc[c] = "retracted"
    /\ Resample(c, np_random_choice(
            Posterior(PriorCounts(c), log_multivariate_tdensity_tables(CurrentX(c))),
            RngUniform(rng)))
    /\ rng' = RngNext(rng)

RECURSIVE SoloSweeps(_, _, _, _, _, _, _)
\* the loops of sample() run without interruption from generator state s
SoloSweeps(a, h, it, pos, s, d, n) ==
    IF it >= n THEN a
    ELSE IF pos = Len(d) THEN SoloSweeps(a, h, it + 1, 0, s, d, n)
    ELSE IF ~ValidIndex(d[pos + 1]) THEN "IndexError"
    ELSE LET h1 == [h EXCEPT ![a[pos + 1]] = @ - 1]
             counts == [k \in DOMAIN h1 |-> RAdd(FromInt(h1[k]), alpha)]
             x == vocab_embeddings[Row(d[pos + 1])]
             t == np_random_choice(
                      Posterior(counts, log_multivariate_tdensity_tables(x)),
                      RngUniform(s))
         IN  SoloSweeps([a EXCEPT ![pos + 1] = t], [h1 EXCEPT ![t] = @ + 1],
                        it, pos + 1, RngNext(s), d, n)

\* what sample(d, n) returns when it alone draws from the generator seeded s
SampleAlone(s, d, n) ==
    LET a == RandintDraws(s, num_tables, Len(d))
    IN  SoloSweeps(a, np_bincount(a, num_tables), 0, 0, RngAfter(s, Len(d)), d, n)

\* the arguments of the concurrent calls: documents over one word of the
\* vocabulary and one id past its end, one sweep at most
ConcDocs == UNION {[1..n -> {0, VocabSize}] : n \in 0..MaxDocLen}
ConcIterations == 0..1

\* every table with the same parameters, so that the posterior is exact
InitConc ==
    /\ Construct(ModelArgs(MaxTables, SamplerPrior,
                           [t \in 0..(MaxTables - 1) |-> SamplerTable(0)]))
    /\ rng \in 0..(RngMod - 1)
    /\ NoCalls
    /\ NoEvals

NextConc ==
    \E c \in Calls :
        \/ /\ pc[c] = "idle"
           /\ \E d \in ConcDocs, n \in ConcIterations : ConcSampleCall(c, d, n)
        \/ RaiseIndexError(c) /\ UNCHANGED rng
        \/ Retract(c) /\ UNCHANGED rng
        \/ ConcResample(c)
        \/ Commit(c) /\ UNCHANGED rng
        \/ NextSweep(c) /\ UNCHANGED rng
        \/ Return(c) /\ UNCHANGED rng

SpecConc == InitConc /\ [][NextConc]_vars

\* ================================================================ claims
RECURSIVE SumBins(_, _)
\* h[0] + ... + h[k]
SumBins(h, k) == IF k < 0 THEN 0 ELSE h[k] + SumBins(h, k - 1)
HistogramSum(c) == SumBins(doc_table_counts[c], Cardinality(DOMAIN doc_table_counts[c]) - 1)
Positions(c) == 1..Len(doc[c])
ValidDoc(c) == \A i \in Positions(c) : InVocabulary(doc[c][i])
Started(c) == pc[c] # "idle"
MidToken(c) == pc[c] \in {"retracted", "sampled"}

\* C1: no step of sample() -- the initial draw, a retract, a posterior
\* computation and draw, a commit, the loop control, the return -- changes
\* table_counts, table_means, table_cholesky_ltriangular_mat,
\* log_determinants, the cached scaleTdistrn and nu, the prior, alpha,
\* num_tables or the embeddings.
C1_GlobalsUnchanged == [][modelVars' = modelVars]_vars

\* a call over two tokens has returned after two full sweeps
C1_Witness ==
    /\ pc[1] = "returned"
    /\ Len(doc[1]) = 2
    /\ num_iterations[1] = 2
    /\ iteration[1] = 2

\* C2: a call on valid vocabulary ids with num_iterations >= 0 returns a
\* vector of the document's length whose entries all lie in [0, K); the -1
\* marker is never returned.
C2_ReturnedInRange ==
    \A c \in Calls :
        (pc[c] = "returned" /\ ValidDoc(c) /\ num_iterations[c] >= 0) =>
            /\ Len(result[c]) = Len(doc[c])
            /\ \A i \in Positions(c) : result[c][i] \in Tables

\* a returned two-token vector naming two different tables after a sweep
C2_Witness ==
    /\ pc[1] = "returned"
    /\ ValidDoc(1)
    /\ Len(doc[1]) = 2
    /\ num_iterations[1] >= 1
    /\ result[1][1] # result[1][2]

\* C3 as stated: the histogram sums to the document's length at every point
\* of the call, also between a token's retract and its commit.
C3_SumAlwaysN ==
    \A c \in Calls : Started(c) => HistogramSum(c) = Len(doc[c])

\* C3 amended: the histogram sums to N except between a token's retract and
\* its commit, where it sums to N - 1.
C3_SumNOrNMinusOne ==
    \A c \in Calls :
        Started(c) =>
            HistogramSum(c) = IF MidToken(c) THEN Len(doc[c]) - 1 ELSE Len(doc[c])

\* a token of a two-token document is retracted in the second sweep
C3_Witness ==
    /\ pc[1] = "retracted"
    /\ Len(doc[1]) = 2
    /\ iteration[1] = 1
    /\ HistogramSum(1) = 1

\* C4: for the table and embedding evaluated, the batched evaluator's entry
\* equals the single-table evaluator's value: the cached scale and degrees of
\* freedom equal the recomputed ones, the solved vectors are the same, and
\* every argument of the Student-t formula is the same.
C4_BatchedEqualsSingle ==
    evaluated = {"single", "tables"} =>
        /\ scaleTdistrn[eval_table] = single_scaleTdistrn(eval_table)
        /\ nu[eval_table] = single_nu(eval_table)
        /\ solved_tables[eval_table] = solved_single
        /\ logprob_tables[eval_table] = logprob_single

\* both evaluators ran on table 1 of two tables with different counts, a
\* factor with a non-zero entry below the diagonal and a non-zero centred
\* vector, and the two tables' densities differ
C4_Witness ==
    /\ evaluated = {"single", "tables"}
    /\ num_tables = 2
    /\ eval_table = 1
    /\ table_counts[0] # table_counts[1]
    /\ table_cholesky_ltriangular_mat[1][2][1] # FromInt(0)
    /\ eval_x[1] # table_means[1][1]
    /\ logprob_tables[0] # logprob_tables[1]

\* C5 as stated: a call that ran concurrently with another returns what it
\* returns alone from the generator state it started with.
C5_ConcurrentEqualsAlone ==
    \A c \in Calls :
        pc[c] = "returned" =>
            result[c] = SampleAlone(seed[c], doc[c], num_iterations[c])

\* C6 as stated: a document with an id outside [0, V) fails before the
\* initial assignment is drawn and returns nothing.
C6_InvalidTokenFailsFast ==
    \A c \in Calls :
        (Started(c) /\ ~ValidDoc(c)) =>
            /\ pc[c] = "raised"
            /\ table_assignments[c] = <<>>
            /\ result[c] = <<>>

\* C7 as stated: a call with num_iterations < 0 fails and returns nothing.
C7_NegativeIterationsFail ==
    \A c \in Calls :
        num_iterations[c] < 0 => pc[c] # "returned"

\* C8 as stated: the vector z either evaluator solves for satisfies
\* L' z = d with L' = scale * L the stored lower-triangular factor and
\* d = x - mu.
C8_SolvesLowerSystem ==
    /\ "single" \in evaluated =>
          MatVec(MatScale(single_scaleTdistrn(eval_table),
                          table_cholesky_ltriangular_mat[eval_table]),
                 solved_single)
            = VecSub(eval_x, table_means[eval_table])
    /\ "tables" \in evaluated =>
          \A t \in Tables :
              MatVec(MatScale(scaleTdistrn[t], table_cholesky_ltriangular_mat[t]),
                     solved_tables[t])
                = VecSub(eval_x, table_means[t])

\* C9: with one table, a call on valid ids with num_iterations >= 0 returns
\* all zeros.
C9_OneTableAllZero ==
    \A c \in Calls :
        (num_tables = 1 /\ pc[c] = "returned" /\ ValidDoc(c)
            /\ num_iterations[c] >= 0) =>
            \A i \in Positions(c) : result[c][i] = 0

\* a one-table model returned a two-token vector after a sweep
C9_Witness ==
    /\ num_tables = 1
    /\ pc[1] = "returned"
    /\ ValidDoc(1)
    /\ Len(doc[1]) = 2
    /\ num_iterations[1] >= 1
    /\ iteration[1] >= 1

\* C10: at every step H[k] is the number of positions assigned to k; the
\* position being resampled carries -1 from its retract to its commit and
\* is counted nowhere, so H then counts the other N - 1 tokens, and only that
\* position is unassigned.
C10_HistogramOfAssignments ==
    \A c \in Calls :
        Started(c) =>
            /\ \A k \in DOMAIN doc_table_counts[c] :
                  doc_table_counts[c][k] =
                      Cardinality({i \in Positions(c) : table_assignments[c][i] = k})
            /\ \A i \in Positions(c) :
                  table_assignments[c][i] = 0 - 1 <=> (MidToken(c) /\ i = w[c] + 1)

\* the second token is retracted while the first sits at table 1 of two
C10_Witness ==
    /\ pc[1] = "retracted"
    /\ num_tables = 2
    /\ Len(doc[1]) = 2
    /\ w[1] = 1
    /\ table_assignments[1][1] = 1
    /\ doc_table_counts[1][1] = 1
    /\ doc_table_counts[1][0] = 0

====
